---- MODULE Spec2Model ----
(***************************************************************************)
(* Model of src/app.py: the BS2 Pix statement consolidator.                *)
(*                                                                         *)
(* Text is modelled by TLA+ strings, one character per position.  The      *)
(* non-ASCII characters the code treats specially are written with ASCII   *)
(* stand-ins, one character each:                                          *)
(*     "_"  U+00A0 NO-BREAK SPACE        "~"  U+2212 MINUS SIGN            *)
(*     "{"  c with cedilla (U+00E7)      "}"  C with cedilla (U+00C7)      *)
(*     "["  o with tilde   (U+00F5)      "]"  O with tilde   (U+00D5)      *)
(*     "("  a with tilde   (U+00E3)      ")"  A with tilde   (U+00C3)      *)
(*     "^"  U+0327 COMBINING CEDILLA     "%"  U+0303 COMBINING TILDE       *)
(* so "Tarifa Opera{[es Pix" is the label "Tarifa Operacoes Pix" written   *)
(* with its cedilla and tilde.                                             *)
(*                                                                         *)
(* A number is a decimal m / 10^e kept in lowest form, or the missing      *)
(* value (pandas NaN); binary rounding of floats is not modelled.          *)
(***************************************************************************)
EXTENDS Integers, Sequences, FiniteSets, TLC

VARIABLES files, added, df_all, tarifa, devol, total_tarifa, total_devol,
          resumo_arquivo, pc, arg, ret

vars == <<files, added, df_all, tarifa, devol, total_tarifa, total_devol,
          resumo_arquivo, pc, arg, ret>>

(***************************************************************************)
(* Bounds                                                                  *)
(***************************************************************************)
MaxValLen == 4

(***************************************************************************)
(* Strings                                                                 *)
(***************************************************************************)
Char(s, i) == SubSeq(s, i, i)

Drop(s, n) == SubSeq(s, n + 1, Len(s))

Last(s) == SubSeq(s, Len(s), Len(s))

StartsWith(s, p) == Len(s) >= Len(p) /\ SubSeq(s, 1, Len(p)) = p

Contains(s, p) == \E i \in 1..(Len(s) - Len(p) + 1) : SubSeq(s, i, i + Len(p) - 1) = p

RECURSIVE ReplaceAll(_, _, _)
ReplaceAll(s, old, new) ==
    IF Len(s) < Len(old) THEN s
    ELSE IF StartsWith(s, old) THEN new \o ReplaceAll(Drop(s, Len(old)), old, new)
    ELSE Char(s, 1) \o ReplaceAll(Drop(s, 1), old, new)

Chars(alphabet) == {Char(alphabet, i) : i \in 1..Len(alphabet)}

IndexIn(c, alphabet) == CHOOSE i \in 1..Len(alphabet) : Char(alphabet, i) = c

AllIn(s, charset) == \A i \in 1..Len(s) : Char(s, i) \in charset

IsSpace(c) == c = " " \/ c = "_"

RECURSIVE LStrip(_)
LStrip(s) == IF Len(s) > 0 /\ IsSpace(Char(s, 1)) THEN LStrip(Drop(s, 1)) ELSE s

RECURSIVE RStrip(_)
RStrip(s) == IF Len(s) > 0 /\ IsSpace(Last(s)) THEN RStrip(SubSeq(s, 1, Len(s) - 1)) ELSE s

Strip(s) == RStrip(LStrip(s))

UpperChars == "ABCDEFGHIJKLMNOPQRSTUVWXYZ}])"

LowerChars == "abcdefghijklmnopqrstuvwxyz{[("

UpperSet == Chars(UpperChars)

LowerChar(c) == IF c \in UpperSet THEN Char(LowerChars, IndexIn(c, UpperChars)) ELSE c

RECURSIVE Lower(_)
Lower(s) == IF Len(s) = 0 THEN s ELSE LowerChar(Char(s, 1)) \o Lower(Drop(s, 1))

(***************************************************************************)
(* Numbers                                                                 *)
(***************************************************************************)
NaN == [nan |-> TRUE, m |-> 0, e |-> 0]

RECURSIVE Norm(_, _)
Norm(m, e) == IF e > 0 /\ m % 10 = 0 THEN Norm(m \div 10, e - 1)
              ELSE [nan |-> FALSE, m |-> m, e |-> e]

RECURSIVE Pow10(_)
Pow10(n) == IF n = 0 THEN 1 ELSE 10 * Pow10(n - 1)

Neg(x) == IF x.nan THEN x ELSE [nan |-> FALSE, m |-> 0 - x.m, e |-> x.e]

Plus(x, y) ==
    IF x.nan \/ y.nan THEN NaN
    ELSE LET e == IF x.e > y.e THEN x.e ELSE y.e
         IN  Norm(x.m * Pow10(e - x.e) + y.m * Pow10(e - y.e), e)

Digits == "0123456789"

DigitSet == Chars(Digits)

DigitDotComma == Chars("0123456789.,")

RECURSIVE DigitsToNat(_)
DigitsToNat(s) == IF Len(s) = 0 THEN 0
                  ELSE 10 * DigitsToNat(SubSeq(s, 1, Len(s) - 1)) + (IndexIn(Last(s), Digits) - 1)

\* pd.to_numeric(errors="coerce") on one cleaned string: an optional "-", digits
\* with at most one "." and at least one digit; anything else is NaN.
to_numeric(s) ==
    LET neg  == StartsWith(s, "-")
        body == IF neg THEN Drop(s, 1) ELSE s
        dots == {i \in 1..Len(body) : Char(body, i) = "."}
        dot  == IF dots = {} THEN Len(body) + 1 ELSE CHOOSE i \in dots : TRUE
        ip   == SubSeq(body, 1, dot - 1)
        fp   == Drop(body, dot)
        val  == Norm(DigitsToNat(ip \o fp), Len(fp))
    IN  IF Cardinality(dots) <= 1 /\ AllIn(ip, DigitSet) /\ AllIn(fp, DigitSet)
           /\ Len(ip) + Len(fp) > 0
        THEN (IF neg THEN Neg(val) ELSE val)
        ELSE NaN

(***************************************************************************)
(* clean_val, one element of the Series                                    *)
(***************************************************************************)
\* trailing_minus without the rewrite
trailing_minus_off(s) == s

\* re.sub(r"^([0-9\.,]+)-$", r"-\1", s)
trailing_minus(s) ==
    IF Len(s) >= 2 /\ Last(s) = "-" /\ AllIn(SubSeq(s, 1, Len(s) - 1), DigitDotComma)
    THEN "-" \o SubSeq(s, 1, Len(s) - 1)
    ELSE s

clean_stage4(s) ==
    ReplaceAll(ReplaceAll(ReplaceAll(ReplaceAll(s, "_", ""), "R$", ""), " ", ""), "~", "-")

clean_text(s) ==
    ReplaceAll(ReplaceAll(trailing_minus(clean_stage4(s)), ".", ""), ",", ".")

clean_val(s) == to_numeric(clean_text(s))

(***************************************************************************)
(* normalize_text                                                          *)
(***************************************************************************)
\* unicodedata.normalize("NFKD", .) on one character
nfkd_char(c) ==
    CASE c = "{" -> "c^"
      [] c = "}" -> "C^"
      [] c = "[" -> "o%"
      [] c = "]" -> "O%"
      [] c = "(" -> "a%"
      [] c = ")" -> "A%"
      [] c = "_" -> " "
      [] OTHER   -> c

RECURSIVE nfkd(_)
nfkd(s) == IF Len(s) = 0 THEN s ELSE nfkd_char(Char(s, 1)) \o nfkd(Drop(s, 1))

\* unicodedata.combining(ch) # 0
combining(c) == c = "^" \/ c = "%"

RECURSIVE strip_combining(_)
strip_combining(s) ==
    IF Len(s) = 0 THEN s
    ELSE (IF combining(Char(s, 1)) THEN "" ELSE Char(s, 1)) \o strip_combining(Drop(s, 1))

normalize_text(s) == Strip(Lower(strip_combining(nfkd(s))))

(***************************************************************************)
(* Tables (pandas DataFrame): column labels, row labels (the index) and    *)
(* one sequence of cells per row.  A text cell is a string; NA is the NaN   *)
(* pandas puts in a text column where a line has too few fields.  A call   *)
(* that raises is the record Raise(e).                                     *)
(***************************************************************************)
NA == "<NaN>"

Frame(c, ix, r) == [exc |-> "none", columns |-> c, index |-> ix, rows |-> r]

Raise(e) == [exc |-> e, columns |-> <<>>, index |-> <<>>, rows |-> <<>>]

EmptyFrame == Frame(<<>>, <<>>, <<>>)

\* DataFrame.empty
empty(df) == Len(df.columns) = 0 \/ Len(df.rows) = 0

\* str(cell)
as_str(cell) == IF cell = NA THEN "nan" ELSE cell

RangeIndex(n) == [i \in 1..n |-> i - 1]

Positions(labels, name) == {j \in 1..Len(labels) : labels[j] = name}

ColPos(df, name) == CHOOSE j \in Positions(df.columns, name) : TRUE

RECURSIVE SetToSeq(_)
SetToSeq(S) == IF S = {} THEN <<>>
               ELSE LET x == CHOOSE y \in S : \A z \in S : y <= z
                    IN  <<x>> \o SetToSeq(S \ {x})

\* seq with Op applied to every element (Series.map, Series.str.<method>)
RECURSIVE Map(_, _)
Map(Op(_), seq) == IF Len(seq) = 0 THEN <<>> ELSE <<Op(Head(seq))>> \o Map(Op, Tail(seq))

RECURSIVE Flatten(_)
Flatten(ss) == IF Len(ss) = 0 THEN <<>> ELSE Head(ss) \o Flatten(Tail(ss))

Keep(seq, mask) == LET RECURSIVE K(_)
                       K(i) == IF i > Len(seq) THEN <<>>
                               ELSE (IF mask[i] THEN <<seq[i]>> ELSE <<>>) \o K(i + 1)
                   IN  K(1)

(***************************************************************************)
(* read_bs2_csv                                                            *)
(***************************************************************************)
RECURSIVE Split(_, _)
Split(s, sep) ==
    LET hits == {i \in 1..Len(s) : Char(s, i) = sep}
    IN  IF hits = {} THEN <<s>>
        ELSE LET i == CHOOSE h \in hits : \A k \in hits : h <= k
             IN  <<SubSeq(s, 1, i - 1)>> \o Split(Drop(s, i), sep)

is_header(line) == StartsWith(Lower(Strip(line)), "data;")

\* header_idx taking the last marked line
header_idx_last(lines) ==
    LET hits == {i \in 1..Len(lines) : is_header(lines[i])}
    IN  IF hits = {} THEN 0 ELSE CHOOSE i \in hits : \A k \in hits : i >= k

header_idx(lines) ==
    LET hits == {i \in 1..Len(lines) : is_header(lines[i])}
    IN  IF hits = {} THEN 0 ELSE CHOOSE i \in hits : \A k \in hits : i <= k

\* pd.read_csv(sep=";", dtype=str, keep_default_na=False) of text whose first line
\* is the header: blank lines are skipped, a short line is padded with NaN.
\* Lines are unquoted and none has more fields than the header.
read_csv(lines) ==
    LET names == Split(lines[1], ";")
        body  == Keep(Tail(lines), [i \in 1..(Len(lines) - 1) |-> Tail(lines)[i] # ""])
        cells(line) == LET f == Split(line, ";")
                       IN  [j \in 1..Len(names) |-> IF j <= Len(f) THEN f[j] ELSE NA]
    IN  Frame(names, RangeIndex(Len(body)), Map(cells, body))

rename_rule(col) ==
    LET c == Lower(Strip(col))
    IN  CASE StartsWith(c, "data")        -> "Data"
          [] StartsWith(c, "tipo")        -> "Tipo"
          [] StartsWith(c, "detalhe")     -> "Detalhe"
          [] Contains(c, "identificador") -> "Identificador"
          [] StartsWith(c, "valor")       -> "Valor"
          [] Contains(c, "observa")       -> "Observa{(o"
          [] OTHER                        -> Strip(col)

CanonicalSix == <<"Data", "Tipo", "Detalhe", "Identificador", "Valor", "Observa{(o">>

CanonicalSeven == CanonicalSix \o <<"Valor_raw">>

\* df[c] = "" for every canonical column not among the labels
RECURSIVE add_missing(_, _)
add_missing(df, names) ==
    IF Len(names) = 0 THEN df
    ELSE add_missing(
            IF Positions(df.columns, Head(names)) # {} THEN df
            ELSE Frame(Append(df.columns, Head(names)), df.index,
                       Map(LAMBDA row : Append(row, ""), df.rows)),
            Tail(names))

\* df[names]: every column carrying one of the labels, label by label
select(df, names) ==
    LET pos == Flatten([k \in 1..Len(names) |-> SetToSeq(Positions(df.columns, names[k]))])
    IN  Frame([j \in 1..Len(pos) |-> df.columns[pos[j]]], df.index,
              [i \in 1..Len(df.rows) |-> [j \in 1..Len(pos) |-> df.rows[i][pos[j]]]])

read_bs2_csv(lines) ==
    LET h == header_idx(lines)
    IN  IF h = 0 THEN EmptyFrame
        ELSE
        LET raw     == read_csv(SubSeq(lines, h, Len(lines)))
            renamed == Frame(Map(rename_rule, raw.columns),
                             raw.index, raw.rows)
            full    == add_missing(renamed, CanonicalSix)
        IN  IF Cardinality(Positions(full.columns, "Valor")) > 1
            THEN Raise("ValueError")
            ELSE
            LET v      == ColPos(full, "Valor")
                parsed == Frame(Append(full.columns, "Valor_raw"), full.index,
                                Map(LAMBDA row : Append([row EXCEPT ![v] = clean_val(as_str(@))],
                                                        row[v]),
                                    full.rows))
            IN  select(parsed, CanonicalSeven)

(***************************************************************************)
(* consolidate                                                             *)
(***************************************************************************)
\* df["Arquivo"] = name
tag(df, name) ==
    Frame(Append(df.columns, "Arquivo"), df.index, Map(LAMBDA row : Append(row, name), df.rows))

EightColumns ==
    <<"Arquivo", "Data", "Tipo", "Detalhe", "Identificador", "Valor", "Observa{(o", "Valor_raw">>

\* concat with the frames taken last to first
concat_reversed(frames) ==
    LET rows == Flatten([k \in 1..Len(frames) |-> frames[Len(frames) + 1 - k].rows])
    IN  Frame(frames[1].columns, RangeIndex(Len(rows)), rows)

\* pd.concat(frames, ignore_index=True) of frames carrying the same column labels
concat(frames) ==
    IF \A k \in 1..Len(frames) : frames[k].columns = frames[1].columns
    THEN LET rows == Flatten([k \in 1..Len(frames) |-> frames[k].rows])
         IN  Frame(frames[1].columns, RangeIndex(Len(rows)), rows)
    ELSE Raise("InvalidIndexError")

\* the loop of consolidate: the frames collected so far, or the exception raised
RECURSIVE collect(_, _)
collect(fs, frames) ==
    IF Len(fs) = 0 THEN [exc |-> "none", frames |-> frames]
    ELSE LET df == read_bs2_csv(Head(fs).content)
         IN  IF df.exc # "none" THEN [exc |-> df.exc, frames |-> <<>>]
             ELSE IF ~empty(df) THEN collect(Tail(fs), Append(frames, tag(df, Head(fs).name)))
             ELSE collect(Tail(fs), frames)

consolidate(fs) ==
    LET got == collect(fs, <<>>)
    IN  IF got.exc # "none" THEN Raise(got.exc)
        ELSE IF Len(got.frames) = 0 THEN Frame(EightColumns, <<>>, <<>>)
        ELSE concat(got.frames)

(***************************************************************************)
(* filter_and_totals and the per-file summary                              *)
(***************************************************************************)
Zero == [nan |-> FALSE, m |-> 0, e |-> 0]

\* series_sum without skipping the missing values
RECURSIVE series_sum_nan(_)
series_sum_nan(vals) ==
    IF Len(vals) = 0 THEN Zero ELSE Plus(Head(vals), series_sum_nan(Tail(vals)))

\* Series.sum(): missing values are skipped, the empty sum is 0
RECURSIVE series_sum(_)
series_sum(vals) ==
    IF Len(vals) = 0 THEN Zero
    ELSE IF Head(vals).nan THEN series_sum(Tail(vals))
    ELSE Plus(Head(vals), series_sum(Tail(vals)))

column(df, name) == LET j == ColPos(df, name) IN Map(LAMBDA row : row[j], df.rows)

\* df[mask]
filter(df, mask) == Frame(df.columns, Keep(df.index, mask), Keep(df.rows, mask))

tipo_norm(df) == Map(LAMBDA c : normalize_text(as_str(c)), column(df, "Tipo"))

\* tarifa_mask with equality in place of containment
tarifa_mask_eq(tn) == Map(LAMBDA t : t = "tarifa operacoes pix", tn)

tarifa_mask(tn) == Map(LAMBDA t : Contains(t, "tarifa operacoes pix"), tn)

\* devol_mask made exclusive of the fee label
devol_mask_exclusive(tn) ==
    Map(LAMBDA t : Contains(t, "devolucao recebida pix") /\ ~Contains(t, "tarifa operacoes pix"),
        tn)

devol_mask(tn) == Map(LAMBDA t : Contains(t, "devolucao recebida pix"), tn)

filter_and_totals(df) ==
    IF empty(df)
    THEN [tarifa |-> df, devol |-> df, total_tarifa |-> Zero, total_devol |-> Zero]
    ELSE LET t == filter(df, tarifa_mask(tipo_norm(df)))
             d == filter(df, devol_mask(tipo_norm(df)))
         IN  [tarifa |-> t, devol |-> d,
              total_tarifa |-> IF ~empty(t) THEN series_sum(column(t, "Valor")) ELSE Zero,
              total_devol  |-> IF ~empty(d) THEN series_sum(column(d, "Valor")) ELSE Zero]

\* g["Tipo_norm"].eq(label)
eq_mask(tn, label) == Map(LAMBDA t : t = label, tn)

\* df_tmp.groupby("Arquivo").apply(...): one entry per file name
resumo(df) ==
    LET names == {column(df, "Arquivo")[i] : i \in 1..Len(df.rows)}
        group(n) == filter(df, Map(LAMBDA a : a = n, column(df, "Arquivo")))
        total(g, label) == series_sum(column(filter(g, eq_mask(tipo_norm(g), label)), "Valor"))
    IN  [n \in names |->
            [linhas       |-> Len(group(n).rows),
             total_tarifa |-> total(group(n), "tarifa operacoes pix"),
             total_devol  |-> total(group(n), "devolucao recebida pix")]]

NoResumo == [n \in {} |-> Zero]

\* the processing section of the script, run on the consolidated table
process(df) ==
    LET ft == filter_and_totals(df)
    IN  [df_all |-> df, tarifa |-> ft.tarifa, devol |-> ft.devol,
         total_tarifa |-> ft.total_tarifa, total_devol |-> ft.total_devol,
         resumo_arquivo |-> IF ~empty(df) THEN resumo(df) ELSE NoResumo]

NotProcessed ==
    [df_all |-> EmptyFrame, tarifa |-> EmptyFrame, devol |-> EmptyFrame,
     total_tarifa |-> Zero, total_devol |-> Zero, resumo_arquivo |-> NoResumo]

\* one run of the script body after the button handlers
rerun(fs) == IF Len(fs) > 0 THEN process(consolidate(fs)) ELSE NotProcessed

Derived(p) ==
    /\ df_all = p.df_all
    /\ tarifa = p.tarifa
    /\ devol = p.devol
    /\ total_tarifa = p.total_tarifa
    /\ total_devol = p.total_devol
    /\ resumo_arquivo = p.resumo_arquivo

DerivedNext(p) ==
    /\ df_all' = p.df_all
    /\ tarifa' = p.tarifa
    /\ devol' = p.devol
    /\ total_tarifa' = p.total_tarifa
    /\ total_devol' = p.total_devol
    /\ resumo_arquivo' = p.resumo_arquivo

derived == <<df_all, tarifa, devol, total_tarifa, total_devol, resumo_arquivo>>

(***************************************************************************)
(* The session: uploads, "add to consolidation" and "clear consolidation"  *)
(***************************************************************************)
MaxBatch == 2

MaxFiles == 3

NoHeaderText == <<"BS2 extrato", "sem dados">>

HeaderOnlyText == <<"Banco BS2", "Data;Tipo;Valor">>

ThreeRowsText ==
    <<"Banco BS2", " DATA;Tipo;Valor",
      "01/02;Tarifa Opera{[es Pix;0,45-",
      "02/02;Devolu{(o Recebida PIX;R$ 25,00",
      "03/02;TARIFA OPERA}]ES PIX;-">>

SameSizeText ==
    <<"Banco BS2", "Extrato conta corrente jan/2024", "Data;Valor;Tipo",
      "01/02;R$ 1.234,56;Pix enviado",
      "",
      "05/02;R$ 2?,00;Devolu{(o Recebida Pix">>

Upload(n, c) == [name |-> n, content |-> c]

\* the files the user can pick in the uploader; the second and third share a key
Uploads ==
    {Upload("a.csv", NoHeaderText), Upload("a.csv", ThreeRowsText),
     Upload("a.csv", SameSizeText), Upload("b.csv", HeaderOnlyText),
     Upload("b.csv", ThreeRowsText)}

\* len(content): the text is one byte per character, one line break per line
RECURSIVE byte_len(_)
byte_len(lines) == IF Len(lines) = 0 THEN 0 ELSE Len(Head(lines)) + 1 + byte_len(Tail(lines))

key_of(f) == <<f.name, byte_len(f.content)>>

\* is_new with the membership test dropped
is_new_always(key, existing_keys) == TRUE

is_new(key, existing_keys) == key \notin existing_keys

\* the loop of the add handler; existing_keys is computed once, before the loop
RECURSIVE add_loop(_, _, _)
add_loop(stored, batch, existing_keys) ==
    IF Len(batch) = 0 THEN stored
    ELSE add_loop(IF is_new(key_of(Head(batch)), existing_keys)
                  THEN Append(stored, Head(batch)) ELSE stored,
                  Tail(batch), existing_keys)

Range(seq) == {seq[i] : i \in 1..Len(seq)}

RECURSIVE SeqsUpTo(_, _)
SeqsUpTo(S, n) ==
    IF n = 0 THEN {<<>>}
    ELSE LET shorter == SeqsUpTo(S, n - 1)
         IN  shorter \cup {Append(q, x) : q \in {r \in shorter : Len(r) = n - 1}, x \in S}

\* pc is the script's position: "idle" once a run has finished and the page waits
\* for a click, "added" / "cleared" after a button handler and before the
\* processing section of the same run.
Init ==
    /\ files = <<>>
    /\ added = 0
    /\ Derived(NotProcessed)
    /\ pc = "idle"
    /\ arg = <<>>
    /\ ret = <<>>

Add(batch) ==
    /\ pc = "idle"
    /\ Len(batch) > 0
    /\ Len(files) + Len(batch) <= MaxFiles
    /\ files' = add_loop(files, batch, {key_of(files[i]) : i \in 1..Len(files)})
    /\ added' = Len(files') - Len(files)
    /\ pc' = "added"
    /\ arg' = batch
    /\ UNCHANGED <<derived, ret>>

Clear ==
    /\ pc = "idle"
    /\ files' = <<>>
    /\ pc' = "cleared"
    /\ UNCHANGED <<added, derived, arg, ret>>

Processing ==
    /\ pc \in {"added", "cleared"}
    /\ DerivedNext(rerun(files))
    /\ pc' = "idle"
    /\ UNCHANGED <<files, added, arg, ret>>

Next ==
    \/ \E batch \in SeqsUpTo(Uploads, MaxBatch) : Add(batch)
    \/ Clear
    \/ Processing

Spec == Init /\ [][Next]_vars

(***************************************************************************)
(* filter_and_totals and the per-file summary on consolidated tables drawn *)
(* row by row                                                              *)
(***************************************************************************)
MaxRows == 2

ConsolidatedColumns ==
    <<"Data", "Tipo", "Detalhe", "Identificador", "Valor", "Observa{(o", "Valor_raw", "Arquivo">>

TipoPool ==
    {"TARIFA OPERA}]ES PIX", "Devolu{(o Recebida PIX", "Pix enviado",
     " Tarifa Opera{[es Pix - lote", "Tarifa Operacoes Pix/Devolucao Recebida Pix"}

ValorPool == {Norm(0 - 45, 2), NaN}

ArquivoPool == {"a.csv", "b.csv"}

Row(tipo, valor, arquivo) == <<"01/02", tipo, "", "", valor, "", "", arquivo>>

RowPool == {Row(t, v, a) : t \in TipoPool, v \in ValorPool, a \in ArquivoPool}

Table(rows) == Frame(ConsolidatedColumns, RangeIndex(Len(rows)), rows)

ExampleTable ==
    Table(<<Row("TARIFA OPERA}]ES PIX", Norm(10, 0), "a.csv"),
            Row("Devolu{(o Recebida PIX", Norm(25, 0), "a.csv"),
            Row("Pix enviado", Norm(5, 0), "a.csv")>>)

InitTotals ==
    /\ files = <<>>
    /\ added = 0
    /\ df_all \in {Table(rows) : rows \in SeqsUpTo(RowPool, MaxRows)} \cup {ExampleTable}
    /\ tarifa = EmptyFrame
    /\ devol = EmptyFrame
    /\ total_tarifa = Zero
    /\ total_devol = Zero
    /\ resumo_arquivo = NoResumo
    /\ pc = "call"
    /\ arg = <<>>
    /\ ret = <<>>

Process ==
    /\ pc = "call"
    /\ DerivedNext(process(df_all))
    /\ pc' = "done"
    /\ UNCHANGED <<files, added, arg, ret>>

SpecTotals == InitTotals /\ [][Process]_vars

(***************************************************************************)
(* clean_val on values drawn character by character                        *)
(***************************************************************************)
ValueChars == {"0", "5", ".", ",", "-", "~", " ", "_", "R", "$"}

RECURSIVE StringsUpTo(_, _)
StringsUpTo(C, n) ==
    IF n = 0 THEN {""}
    ELSE LET shorter == StringsUpTo(C, n - 1)
         IN  shorter \cup {q \o c : q \in {r \in shorter : Len(r) = n - 1}, c \in C}

ExampleValues == {"R$ 1.234,56", "0,45-", "1.234,56-", "R$ -1,00", "0,45--"}

InitClean ==
    /\ files = <<>>
    /\ added = 0
    /\ Derived(NotProcessed)
    /\ pc = "call"
    /\ arg \in StringsUpTo(ValueChars, MaxValLen) \cup ExampleValues
    /\ ret = NaN

CallClean ==
    /\ pc = "call"
    /\ ret' = clean_val(arg)
    /\ pc' = "done"
    /\ UNCHANGED <<files, added, derived, arg>>

SpecClean == InitClean /\ [][CallClean]_vars

(***************************************************************************)
(* read_bs2_csv on texts drawn line by line                                *)
(***************************************************************************)
MaxLines == 3

LinePool ==
    {"BS2", "data: 01/02", "", " DATA;Valor;Tipo", "Data;Tipo;Valor", "01/02;5,00-;x"}

\* five lines of preamble, the header and one data row
ExampleText ==
    <<"BS2", "", "data: 01/02", "BS2", "BS2", " DATA;Valor;Tipo", "01/02;5,00-;x">>

InitRead ==
    /\ files = <<>>
    /\ added = 0
    /\ Derived(NotProcessed)
    /\ pc = "call"
    /\ arg \in SeqsUpTo(LinePool, MaxLines) \cup {ExampleText}
    /\ ret = EmptyFrame

CallRead ==
    /\ pc = "call"
    /\ ret' = read_bs2_csv(arg)
    /\ pc' = "done"
    /\ UNCHANGED <<files, added, derived, arg>>

SpecRead == InitRead /\ [][CallRead]_vars

(***************************************************************************)
(* read_bs2_csv on one-row files whose header is drawn name by name        *)
(***************************************************************************)
MaxCols == 4

FirstNames == {"Data", " DATA"}

OtherNames ==
    {"Data Mov", "Tipo", "Detalhe", "N Identificador", "Valor", "valor total",
     "Observa{(o", "Saldo"}

RECURSIVE Join(_, _)
Join(parts, sep) ==
    IF Len(parts) = 0 THEN ""
    ELSE IF Len(parts) = 1 THEN Head(parts)
    ELSE Head(parts) \o sep \o Join(Tail(parts), sep)

HeaderFile(names) == <<Join(names, ";"), Join([j \in 1..Len(names) |-> "1,00"], ";")>>

InitCols ==
    /\ files = <<>>
    /\ added = 0
    /\ Derived(NotProcessed)
    /\ pc = "call"
    /\ arg \in {<<f>> \o rest : f \in FirstNames,
                                 rest \in SeqsUpTo(OtherNames, MaxCols - 1) \ {<<>>}}
    /\ ret = EmptyFrame

CallCols ==
    /\ pc = "call"
    /\ ret' = read_bs2_csv(HeaderFile(arg))
    /\ pc' = "done"
    /\ UNCHANGED <<files, added, derived, arg>>

SpecCols == InitCols /\ [][CallCols]_vars

(***************************************************************************)
(* Properties                                                              *)
(***************************************************************************)
FeeLabel == "tarifa operacoes pix"

RefundLabel == "devolucao recebida pix"

\* the sum of the values vals[i], i in S, none of them missing
RECURSIVE SumOver(_, _)
SumOver(vals, S) ==
    IF S = {} THEN Zero
    ELSE LET i == CHOOSE k \in S : TRUE IN Plus(vals[i], SumOver(vals, S \ {i}))

Valued(df, S) == {i \in S : ~column(df, "Valor")[i].nan}

\* the rows of df whose normalized Tipo contains the label
Matching(df, label) ==
    {i \in 1..Len(df.rows) : Contains(normalize_text(as_str(column(df, "Tipo")[i])), label)}

\* sub holds exactly the rows S of df, in order, under their row labels
IsSubset(sub, df, S) ==
    /\ sub.columns = df.columns
    /\ Len(sub.index) = Cardinality(S)
    /\ Len(sub.rows) = Cardinality(S)
    /\ Range(sub.index) = {df.index[i] : i \in S}
    /\ \A k \in 1..Len(sub.index) :
          /\ sub.rows[k] = df.rows[sub.index[k] + 1]
          /\ k > 1 => sub.index[k - 1] < sub.index[k]

\* C1: no two entries of the session collection share a (filename, byte-length) key,
\* also when one submitted batch holds two files with the same key.
C1_NoSharedKey ==
    \A i, j \in 1..Len(files) : i # j => key_of(files[i]) # key_of(files[j])

\* C2: an add click whose batch holds only (filename, content) pairs already stored
\* leaves the collection unchanged and reports 0 files added.
C2_ReAddIdempotent ==
    [][(pc = "idle" /\ pc' = "added" /\ \A i \in 1..Len(arg') : arg'[i] \in Range(files))
          => (files' = files /\ added' = 0)]_vars

C2_Witness ==
    /\ pc = "added"
    /\ Len(files) > 0
    /\ added = 0
    /\ \A i \in 1..Len(arg) : arg[i] \in Range(files)

\* C3: the per-file summary uses the rule of filter_and_totals: for every file, its fee
\* (refund) total is the sum of Valor over the file's rows whose normalized Tipo
\* contains the fee (refund) label, so the per-file totals add up to the global ones.
C3_PerFileSameRule ==
    (pc = "done" /\ ~empty(df_all)) =>
        LET ofFile(n) == {i \in 1..Len(df_all.rows) : column(df_all, "Arquivo")[i] = n}
            sum(S)    == SumOver(column(df_all, "Valor"), Valued(df_all, S))
        IN  /\ \A n \in DOMAIN resumo_arquivo :
                  /\ resumo_arquivo[n].total_tarifa = sum(ofFile(n) \cap Matching(df_all, FeeLabel))
                  /\ resumo_arquivo[n].total_devol = sum(ofFile(n) \cap Matching(df_all, RefundLabel))
            /\ SumOver([n \in DOMAIN resumo_arquivo |-> resumo_arquivo[n].total_tarifa],
                       DOMAIN resumo_arquivo) = total_tarifa
            /\ SumOver([n \in DOMAIN resumo_arquivo |-> resumo_arquivo[n].total_devol],
                       DOMAIN resumo_arquivo) = total_devol

\* C4: whenever the header line is found, read_bs2_csv returns exactly the seven
\* canonical columns, each once, in the fixed order, whatever the source header names.
C4_SevenColumns ==
    (pc = "done" /\ \E i \in 1..Len(HeaderFile(arg)) : is_header(HeaderFile(arg)[i]))
        => (ret.exc = "none" /\ ret.columns = CanonicalSeven)

\* C5: the fee (refund) subset holds exactly the rows whose normalized Tipo contains the
\* fee (refund) label, and each total is the sum of Valor over its subset without the
\* missing values, 0 when there is nothing to sum.
C5_FilterAndTotals ==
    pc = "done" =>
        LET fee    == Matching(df_all, FeeLabel)
            refund == Matching(df_all, RefundLabel)
            vals   == column(df_all, "Valor")
        IN  /\ IsSubset(tarifa, df_all, fee)
            /\ IsSubset(devol, df_all, refund)
            /\ total_tarifa = SumOver(vals, Valued(df_all, fee))
            /\ total_devol = SumOver(vals, Valued(df_all, refund))
            /\ df_all = ExampleTable =>
                  /\ tarifa.index = <<0>>
                  /\ devol.index = <<1>>
                  /\ total_tarifa = Norm(10, 0)
                  /\ total_devol = Norm(25, 0)

C5_Witness ==
    /\ pc = "done"
    /\ df_all = ExampleTable
    /\ total_tarifa = Norm(10, 0)
    /\ total_devol = Norm(25, 0)

\* the first line of the text that, trimmed and lowercased, starts with "data;" (0: none)
FirstMarked(lines) ==
    LET marked == {i \in 1..Len(lines) : StartsWith(Lower(Strip(lines[i])), "data;")}
    IN  IF marked = {} THEN 0 ELSE CHOOSE i \in marked : \A k \in marked : i <= k

\* the data lines of the text: the non-blank lines after the header line
DataLines(lines) ==
    LET h == FirstMarked(lines)
    IN  IF h = 0 THEN <<>>
        ELSE Keep(SubSeq(lines, h + 1, Len(lines)),
                  [i \in 1..(Len(lines) - h) |-> lines[h + i] # ""])

\* the number of data lines in the files before the i-th
RECURSIVE RowsBefore(_)
RowsBefore(i) == IF i <= 1 THEN 0
                 ELSE RowsBefore(i - 1) + Len(DataLines(files[i - 1].content))

\* C6: the consolidated table is the concatenation, in list order and in line order, of
\* the rows of the files that parse to a non-empty table, each row tagged with its
\* file's name; with no rows at all it is the empty table of the eight columns.
C6_Consolidated ==
    (pc = "idle" /\ Len(files) > 0) =>
        LET n == RowsBefore(Len(files) + 1)
        IN  /\ df_all.exc = "none"
            /\ Len(df_all.rows) = n
            /\ df_all.index = RangeIndex(n)
            /\ Len(df_all.columns) = 8
            /\ Range(df_all.columns) = Range(EightColumns)
            /\ \A i \in 1..Len(files) :
                  LET parsed == read_bs2_csv(files[i].content)
                  IN  /\ Len(parsed.rows) = Len(DataLines(files[i].content))
                      /\ \A r \in 1..Len(parsed.rows) :
                            LET row == df_all.rows[RowsBefore(i) + r]
                            IN  /\ row[ColPos(df_all, "Arquivo")] = files[i].name
                                /\ \A c \in Range(CanonicalSeven) :
                                      row[ColPos(df_all, c)] = parsed.rows[r][ColPos(parsed, c)]

C6_Witness ==
    /\ pc = "idle"
    /\ Len(files) = 3
    /\ empty(read_bs2_csv(files[1].content))
    /\ files[2].name # files[3].name
    /\ Len(df_all.rows) = 6
    /\ \A i \in 1..6 :
          column(df_all, "Arquivo")[i] = IF i <= 3 THEN files[2].name ELSE files[3].name

\* C7: read_bs2_csv takes as header the first line that, trimmed and lowercased, starts
\* with "data;", and returns the table it returns for the text without the lines before
\* it; a text with no such line gives the empty table.
C7_PreambleRoundTrip ==
    pc = "done" =>
        LET h == FirstMarked(arg)
        IN  IF h = 0 THEN ret = EmptyFrame
            ELSE /\ ret.exc = "none"
                 /\ ret = read_bs2_csv(SubSeq(arg, h, Len(arg)))
                 /\ Len(ret.rows) = Len(DataLines(arg))
                 /\ \A r \in 1..Len(ret.rows) :
                       ret.rows[r][ColPos(ret, "Data")] = Head(Split(DataLines(arg)[r], ";"))

C7_Witness ==
    /\ pc = "done"
    /\ FirstMarked(arg) = 6
    /\ Len(arg) = 7
    /\ Len(ret.rows) = 1
    /\ ret = read_bs2_csv(SubSeq(arg, 6, 7))

\* the number written by digits, "." as grouping and "," as decimal separator
PlainNumber(v) ==
    LET parts == Split(ReplaceAll(v, ".", ""), ",")
        frac  == IF Len(parts) = 2 THEN parts[2] ELSE ""
    IN  IF Len(parts) <= 2 /\ Len(parts[1]) + Len(frac) > 0
        THEN Norm(DigitsToNat(parts[1] \o frac), Len(frac))
        ELSE NaN

\* C8: a value that after the first four stages is digits, "." and "," followed by one
\* "-" parses to the negation of the value without the "-"; "R$ 1.234,56" is 1234.56,
\* "R$ -1,00" is -1.0; the empty string, a lone "-" and two trailing "-" are missing.
C8_TrailingMinus ==
    pc = "done" =>
        LET v == clean_stage4(arg)
            u == SubSeq(v, 1, Len(v) - 1)
        IN  /\ (Len(v) >= 2 /\ Last(v) = "-" /\ AllIn(u, DigitDotComma))
                  => (ret = Neg(clean_val(u)) /\ ret = Neg(PlainNumber(u)))
            /\ AllIn(v, DigitDotComma) => ret = PlainNumber(v)
            /\ arg = "R$ 1.234,56" => ret = Norm(123456, 2)
            /\ arg = "0,45-" => ret = Norm(0 - 45, 2)
            /\ arg = "1.234,56-" => ret = Norm(0 - 123456, 2)
            /\ arg = "R$ -1,00" => ret = Norm(0 - 1, 0)
            /\ (v = "" \/ v = "-") => ret = NaN
            /\ (Len(v) >= 2 /\ SubSeq(v, Len(v) - 1, Len(v)) = "--") => ret = NaN

C8_Witness ==
    /\ pc = "done"
    /\ arg = "1.234,56-"
    /\ ret = Norm(0 - 123456, 2)

\* the text of the value column in a data line, given the header line
SourceValue(header, line) ==
    LET names == Split(header, ";")
        at    == {j \in 1..Len(names) : StartsWith(Lower(Strip(names[j])), "valor")}
    IN  IF at = {} THEN "" ELSE Split(line, ";")[CHOOSE j \in at : TRUE]

\* the cleaned text is a number: an optional "-", digits, at most one "."
IsNumber(t) ==
    LET body  == IF StartsWith(t, "-") THEN Drop(t, 1) ELSE t
        parts == Split(body, ".")
    IN  /\ Len(parts) <= 2
        /\ \A k \in 1..Len(parts) : AllIn(parts[k], DigitSet)
        /\ Len(ReplaceAll(body, ".", "")) > 0

\* C9: every data line of every file is a row of the consolidated table, with Valor_raw
\* the source text of its value column and Valor missing exactly when the cleaned text
\* is not a number; the row is in the fee (refund) subset when its Tipo matches, and a
\* row with a missing Valor adds nothing to either total.
C9_UnparseableKept ==
    (pc = "idle" /\ Len(files) > 0) =>
        /\ df_all.exc = "none"
        /\ Len(df_all.rows) = RowsBefore(Len(files) + 1)
        /\ \A i \in 1..Len(files) :
              LET text == files[i].content
              IN  \A r \in 1..Len(DataLines(text)) :
                     LET k   == RowsBefore(i) + r
                         row == df_all.rows[k]
                         raw == SourceValue(text[FirstMarked(text)], DataLines(text)[r])
                     IN  /\ row[ColPos(df_all, "Valor_raw")] = raw
                         /\ row[ColPos(df_all, "Valor")].nan <=> ~IsNumber(clean_text(raw))
                         /\ k \in Matching(df_all, FeeLabel) => df_all.index[k] \in Range(tarifa.index)
                         /\ k \in Matching(df_all, RefundLabel) => df_all.index[k] \in Range(devol.index)
        /\ total_tarifa = SumOver(column(df_all, "Valor"),
                                  Valued(df_all, Matching(df_all, FeeLabel)))
        /\ total_devol = SumOver(column(df_all, "Valor"),
                                 Valued(df_all, Matching(df_all, RefundLabel)))

C9_Witness ==
    /\ pc = "idle"
    /\ ~empty(tarifa)
    /\ \E k \in 1..Len(tarifa.rows) :
          /\ tarifa.rows[k][ColPos(tarifa, "Valor")].nan
          /\ tarifa.rows[k][ColPos(tarifa, "Valor_raw")] = "-"
    /\ total_tarifa = Norm(0 - 45, 2)

\* C10 as stated: no row is in both the fee subset and the refund subset.
C10_Disjoint ==
    pc = "done" => Range(tarifa.index) \cap Range(devol.index) = {}

\* C10, amended: a row is in both subsets exactly when its normalized Tipo contains both
\* labels; every other row is in at most one subset.
C10_OverlapOnlyOnBothLabels ==
    pc = "done" =>
        \A i \in 1..Len(df_all.rows) :
            (df_all.index[i] \in Range(tarifa.index) \cap Range(devol.index))
                <=> (i \in Matching(df_all, FeeLabel) \cap Matching(df_all, RefundLabel))

C10_Witness ==
    /\ pc = "done"
    /\ Len(df_all.rows) = 2
    /\ Range(tarifa.index) = {0, 1}
    /\ Range(devol.index) = {0}
    /\ total_tarifa = Norm(0 - 9, 1)
    /\ total_devol = Norm(0 - 45, 2)

====
